---- MODULE Spec2Model ----
(***************************************************************************)
(* A model of nvidia_allocator.py: the Proxmox hook / assignment tool that *)
(* binds NVIDIA vGPU virtual functions to VMs.                             *)
(*                                                                         *)
(* Representation of text.  A string that the program splits on a fixed   *)
(* separator is held as the list of pieces between the separators, so the *)
(* empty string is <<"">> and str.split(sep) is the list itself:           *)
(*   - an args value is its list of words (separator ' '),                *)
(*   - a tags value its list of labels (separator ';'),                   *)
(*   - an smbios1 value its list of items (separator ',').                *)
(* A descriptor file is its list of lines plus whether the last line is    *)
(* terminated; a line is its text before the first ': ', the number of    *)
(* ': ' separators in it, and the value after the first separator.        *)
(***************************************************************************)
EXTENDS Integers, Sequences, FiniteSets, TLC

\* ------------------------------------------------------------------ bounds
\* Longest list of labels in an initial tags value.
MaxTags == 2
\* Longest list of option elements in an initial args value.
MaxArgs == 3
\* Longest list of option elements in the args of a descriptor given to assign_gpu.
MaxOpts == 2
\* Longest descriptor text, in lines, of the parse/serialize check.
MaxLines == 3

\* ---------------------------------------------------------------- universe
Nodes == {"pve1", "pve2"}
LocalNode == "pve1"
VmIds == {"101", "102"}
NoNode == "None"

\* PCI addresses as os.listdir('/sys/bus/pci/devices/') yields them, in that order.
DeviceOrder == <<"0000:01:00.0", "0000:02:00.0", "0000:03:00.0">>
Devices == {DeviceOrder[k] : k \in 1..Len(DeviceOrder)}

\* len() of a device name: every PCI address has 12 characters.
NameLen(d) == 12

TypeIds == {"63", "64", "100"}
Sentinel == "0"
NoFile == "absent"

\* f'/sys/bus/pci/devices/{gpu}'
DevPath(d) ==
    CASE d = "0000:01:00.0" -> "/sys/bus/pci/devices/0000:01:00.0"
      [] d = "0000:02:00.0" -> "/sys/bus/pci/devices/0000:02:00.0"
      [] d = "0000:03:00.0" -> "/sys/bus/pci/devices/0000:03:00.0"

PathDev(path) == CHOOSE d \in Devices : DevPath(d) = path

\* f'vfio-pci,sysfsdev=/sys/bus/pci/devices/{gpu}'
DevWord(d) ==
    CASE d = "0000:01:00.0" -> "vfio-pci,sysfsdev=/sys/bus/pci/devices/0000:01:00.0"
      [] d = "0000:02:00.0" -> "vfio-pci,sysfsdev=/sys/bus/pci/devices/0000:02:00.0"
      [] d = "0000:03:00.0" -> "vfio-pci,sysfsdev=/sys/bus/pci/devices/0000:03:00.0"

\* f'-device vfio-pci,sysfsdev=/sys/bus/pci/devices/{gpu}': one list element, two words.
DeviceOption(d) == <<"-device", DevWord(d)>>

DevWords == {DevWord(d) : d \in Devices}
WordDev(w) == CHOOSE d \in Devices : DevWord(d) = w

\* f"nvidia-{gpu_type}"
NvidiaLabel(t) ==
    CASE t = "63" -> "nvidia-63"
      [] t = "64" -> "nvidia-64"
      [] t = "100" -> "nvidia-100"

NvidiaLabels == {NvidiaLabel(t) : t \in TypeIds}
LabelType(l) == CHOOSE t \in TypeIds : NvidiaLabel(t) = l

\* The code points of the strings the program orders (sorted() compares
\* strings code point by code point).
Chars(s) ==
    CASE s = "" -> <<>>
      [] s = "63" -> <<54, 51>>
      [] s = "64" -> <<54, 52>>
      [] s = "100" -> <<49, 48, 48>>
      [] s = "nvidia-63" -> <<110, 118, 105, 100, 105, 97, 45, 54, 51>>
      [] s = "nvidia-64" -> <<110, 118, 105, 100, 105, 97, 45, 54, 52>>
      [] s = "nvidia-100" -> <<110, 118, 105, 100, 105, 97, 45, 49, 48, 48>>
      [] s = "prod" -> <<112, 114, 111, 100>>
      [] s = "gpu" -> <<103, 112, 117>>
      [] s = "101" -> <<49, 48, 49>>
      [] s = "102" -> <<49, 48, 50>>
      [] s = "pve1" -> <<112, 118, 101, 49>>
      [] s = "pve2" -> <<112, 118, 101, 50>>
      [] s = "name" -> <<110, 97, 109, 101>>
      [] s = "tags" -> <<116, 97, 103, 115>>
      [] s = "\n" -> <<10>>
      [] s = " : " -> <<32, 58, 32>>
      [] s = "A40-1Q" -> <<65, 52, 48, 45, 49, 81>>
      [] s = "A40-2Q" -> <<65, 52, 48, 45, 50, 81>>
      [] s = "A40-4Q" -> <<65, 52, 48, 45, 52, 81>>

\* ------------------------------------------------------------ list helpers
Range(s) == {s[k] : k \in 1..Len(s)}

Min2(a, b) == IF a <= b THEN a ELSE b

\* a < b for two lists of code points, as Python compares str.
LexLess(a, b) ==
    \E k \in 1..(Min2(Len(a), Len(b)) + 1) :
        /\ \A j \in 1..(k - 1) : a[j] = b[j]
        /\ \/ k = Len(a) + 1 /\ k <= Len(b)
           \/ k <= Len(a) /\ k <= Len(b) /\ a[k] < b[k]

StrLess(x, y) == LexLess(Chars(x), Chars(y))

RECURSIVE Flatten(_)
Flatten(ss) == IF ss = <<>> THEN <<>> ELSE Head(ss) \o Flatten(Tail(ss))

\* All lists over S of length lo..hi.
SeqsOf(S, lo, hi) == UNION {[1..n -> S] : n \in lo..hi}

\* sorted(list): ascending, equal elements kept (insertion of the head into
\* the sorted tail, before the first element that is not smaller).
RECURSIVE sorted(_)
sorted(s) ==
    IF s = <<>> THEN <<>>
    ELSE LET rest == sorted(Tail(s))
             x == Head(s)
             n == Cardinality({k \in 1..Len(rest) : StrLess(rest[k], x)})
         IN SubSeq(rest, 1, n) \o <<x>> \o SubSeq(rest, n + 1, Len(rest))

\* sorted(set): the elements of a set in ascending order.
RECURSIVE sorted_set(_)
sorted_set(S) ==
    IF S = {} THEN <<>>
    ELSE LET m == CHOOSE x \in S : \A y \in S \ {x} : StrLess(x, y)
         IN <<m>> \o sorted_set(S \ {m})

\* ------------------------------------------------------- descriptor text
\* First pieces of lines that parse_vm_config skips: they start with '#' or '['.
CommentHeads == {"#vm for render jobs"}
SectionHeads == {"[snap1]"}

Line(k, n, v) == [key |-> k, seps |-> n, val |-> v]
KV(k, v) == Line(k, 1, v)

\* `not line or line.startswith('#') or line.startswith('[')`
Skipped(line) ==
    \/ line.key = "" /\ line.seps = 0
    \/ line.key \in CommentHeads
    \/ line.key \in SectionHeads

\* The dict the program holds: its items in insertion order.
Keys(config) == {config[k][1] : k \in 1..Len(config)}
HasKey(config, key) == key \in Keys(config)
KeyIndex(config, key) == CHOOSE k \in 1..Len(config) : config[k][1] = key
Get(config, key) == config[KeyIndex(config, key)][2]
\* config[key] = value: a present key keeps its place, a new one goes last.
Put(config, key, value) ==
    IF HasKey(config, key)
    THEN [config EXCEPT ![KeyIndex(config, key)] = <<key, value>>]
    ELSE Append(config, <<key, value>>)

\* The loop of parse_vm_config over config.splitlines(); `key, value =
\* line.split(': ')` raises ValueError unless the line has exactly one ': '.
RECURSIVE parse_lines(_, _)
parse_lines(lines, config_dict) ==
    IF lines = <<>> THEN [ok |-> TRUE, dict |-> config_dict]
    ELSE IF Skipped(Head(lines)) THEN parse_lines(Tail(lines), config_dict)
    ELSE IF Head(lines).seps # 1 THEN [ok |-> FALSE, dict |-> <<>>]
    ELSE parse_lines(Tail(lines),
                     Put(config_dict, Head(lines).key, Head(lines).val))

\* parse_vm_config on the text of a file that exists.
parse_text(file) == parse_lines(file.lines, <<>>)

\* The save loop of assign_gpu: one `key: value\n` per item.
serialize(config) ==
    [lines |-> [k \in 1..Len(config) |-> KV(config[k][1], config[k][2])],
     nl |-> Len(config) > 0]

\* item.split('=') for the items an smbios1 value is made of.
EqSplit(item) ==
    CASE item = "uuid=1234" -> <<"uuid", "1234">>
      [] item = "base64=1" -> <<"base64", "1">>
      [] item = "uuid" -> <<"uuid">>

\* parse_line_config(config_line, 'uuid'): "ValueError" when an item is not
\* key=value, "None" when no item has the key, else the last value given.
parse_line_config(config_line, item) ==
    IF \E k \in 1..Len(config_line) : Len(EqSplit(config_line[k])) # 2
    THEN "ValueError"
    ELSE LET hits == {k \in 1..Len(config_line) : EqSplit(config_line[k])[1] = item}
         IN IF hits = {} THEN "None"
            ELSE EqSplit(config_line[CHOOSE k \in hits : \A j \in hits : j <= k])[2]

\* re.findall(r'nvidia-(\d+)', tags), sorted.
RECURSIVE type_matches(_)
type_matches(labels) ==
    IF labels = <<>> THEN <<>>
    ELSE (IF Head(labels) \in NvidiaLabels
          THEN <<LabelType(Head(labels))>> ELSE <<>>) \o type_matches(Tail(labels))

parse_vgpu_type_id(config) == sorted(type_matches(Get(config, "tags")))

\* re.findall(r'-device vfio-pci,sysfsdev=(/sys/bus/pci/devices/[0-9a-fA-F:.]+)', args)
RECURSIVE bus_matches(_)
bus_matches(words) ==
    IF Len(words) < 2 THEN <<>>
    ELSE IF words[1] = "-device" /\ words[2] \in DevWords
         THEN <<DevPath(WordDev(words[2]))>> \o bus_matches(Tail(Tail(words)))
         ELSE bus_matches(Tail(words))

parse_vgpu_bus_id(config) == bus_matches(Get(config, "args"))

\* A descriptor file: `exists` is whether open() finds it; the text is its
\* lines, and `nl` says whether the last line ends with a newline.
NoDescriptor == [exists |-> FALSE, lines |-> <<>>, nl |-> FALSE]
Descriptor(lines, nl) == [exists |-> TRUE, lines |-> lines, nl |-> nl]

\* str.splitlines() yields no empty last line for an unterminated text, so
\* a text is its lines and `nl` exactly when an unterminated text ends with a
\* non-empty line.
IsText(file) ==
    file.nl \/ file.lines = <<>>
            \/ ~(file.lines[Len(file.lines)].key = "" /\ file.lines[Len(file.lines)].seps = 0)

\* ------------------------------------------------------------------- state
Procs == {"p1", "p2", "p3"}
VmFiles == Nodes \X VmIds

VARIABLES
    conf,       \* /etc/pve/nodes/<node>/qemu-server/<vmid>.conf, by <<node, vmid>>
    devstat,    \* per device: "missing" (no such path), "ro" (its control file
                \* cannot be opened for writing), "ok"
    occ,        \* per device: what was last written to nvidia/current_vgpu_type
    creatable,  \* per device: the type ids of nvidia/creatable_vgpu_types, in file order
    proc,       \* per process: its command line, position and local variables
    rt          \* the parse/serialize check: the text serialized from the parsed one

vars == <<conf, devstat, occ, creatable, proc, rt>>

\* The file parse_vm_config(vmid, from_node) opens: /etc/pve/qemu-server is
\* the local node's directory.
config_file(vmid, from_node) ==
    IF from_node # NoNode THEN <<from_node, vmid>> ELSE <<LocalNode, vmid>>

IdleProc ==
    [pc |-> "idle", kind |-> "", vmid |-> "", phase |-> "", from_node |-> NoNode,
     vgpu_name |-> "", node |-> "", gpu |-> "", gpu_type |-> "",
     text |-> NoDescriptor, config |-> <<>>, vgpu_types |-> <<>>, vgpu_paths |-> <<>>,
     vms |-> <<>>, gpus |-> <<>>, gpu_types |-> <<>>, filtered_gpus |-> <<>>,
     current_row |-> <<>>, i |-> 0, exitcode |-> -1, exc |-> "", devlog |-> <<>>, conflog |-> <<>>, printed |-> ""]

\* The process ends: sys.exit(code), or an uncaught exception (status 1).
\* The status the parent sees is the low 8 bits of the code.
Exit(pr, code, exc) ==
    [pr EXCEPT !.pc = "exited", !.exitcode = code % 256, !.exc = exc]

\* ------------------------------------------------------------ device scan
\* What a read of nvidia/current_vgpu_type returns: the value and a newline.
read_current(d) == [text |-> occ[d], nl |-> TRUE]
SentinelRead == [text |-> Sentinel, nl |-> TRUE]

\* The devices get_gpus visits: in listing order, those with an nvidia directory.
Scanned == SelectSeq(DeviceOrder, LAMBDA d : devstat[d] # "missing")

\* The text of nvidia/creatable_vgpu_types, a line being its pieces around
\* ' : ': a header line, then one `<id> : <name>` line per creatable type.
TypeName(t) ==
    CASE t = "63" -> "A40-1Q"
      [] t = "64" -> "A40-2Q"
      [] t = "100" -> "A40-4Q"

HeaderLine == <<"ID", " : ", "vGPU Name">>
TypeLine(t) == <<t, " : ", TypeName(t)>>
creatable_vgpu_types(d) ==
    <<HeaderLine>> \o [k \in 1..Len(creatable[d]) |-> TypeLine(creatable[d][k])]

\* The lines get_gpus keeps: `not gpu_type or gpu_type.startswith('ID')` skips.
type_lines(lines) == SelectSeq(lines, LAMBDA l : l # <<"">> /\ l[1] # "ID")

\* gpu_type.split(" : ")[0].strip()
vgpu_id(gpu_type) == gpu_type[1]

\* The text read from nvidia/current_vgpu_type, as pieces: the value, a newline.
current_vgpu_type(d) == <<read_current(d).text, "\n">>

\* AVAILABLE_GPUS of get_gpus: the free devices in scan order (the keys of
\* the dict); AvailableTypes(d) is the list kept for a free device.
AVAILABLE_GPUS == SelectSeq(Scanned, LAMBDA d : read_current(d) = SentinelRead)
AvailableTypes(d) ==
    LET lines == type_lines(creatable_vgpu_types(d))
    IN [k \in 1..Len(lines) |-> vgpu_id(lines[k])]

\* ASSIGNED_GPUS: the occupied devices in scan order; the value kept for one
\* is the text read, newline included.
ASSIGNED_GPUS == SelectSeq(Scanned, LAMBDA d : read_current(d) # SentinelRead)

\* GPU_TYPES: the text read from each occupied device and every kept line of
\* each free device's creatable types, whole.
GPU_TYPES ==
    {current_vgpu_type(d) : d \in Range(ASSIGNED_GPUS)}
    \cup UNION {Range(type_lines(creatable_vgpu_types(d))) : d \in Range(AVAILABLE_GPUS)}

\* What get_gpus returns: a tuple of three, the two dicts as their items in
\* insertion order.
get_gpus ==
    <<[k \in 1..Len(AVAILABLE_GPUS) |-> <<AVAILABLE_GPUS[k], AvailableTypes(AVAILABLE_GPUS[k])>>],
      [k \in 1..Len(ASSIGNED_GPUS) |-> <<ASSIGNED_GPUS[k], current_vgpu_type(ASSIGNED_GPUS[k])>>],
      GPU_TYPES>>

\* get_available_gpu(vgpu_type): `gpus, _ = get_gpus()` needs a tuple of
\* two and raises ValueError otherwise; then the first free device whose list
\* has the type, or "" when the function calls exit(404).
get_available_gpu(vgpu_type) ==
    IF Len(get_gpus) # 2 THEN "ValueError"
    ELSE LET gpus == get_gpus[1]
             offers == SelectSeq(gpus, LAMBDA item : vgpu_type \in Range(item[2]))
         IN IF offers = <<>> THEN "" ELSE Head(offers)[1]

\* ------------------------------------------------------------------- hook
LifecyclePhases == {"pre-start", "post-start", "post-stop"}

\* A hook process starts: script.py <vmid> <phase> [<vgpu_name>], with
\* PVE_MIGRATED_FROM set or not.
Invoke_main(p, vmids, phases, from_nodes) ==
    /\ proc[p].pc = "idle"
    /\ \E vmid \in vmids, phase \in phases, from_node \in from_nodes,
          vgpu_name \in {"63", "64"} :
        /\ phase # "get_command" => vgpu_name = "63"
        /\ proc' = [proc EXCEPT ![p] =
               [IdleProc EXCEPT !.pc = "load", !.kind = "hook", !.vmid = vmid,
                                !.phase = phase, !.from_node = from_node,
                                !.vgpu_name = IF phase = "get_command" THEN vgpu_name ELSE ""]]
    /\ UNCHANGED <<conf, devstat, occ, creatable, rt>>

\* main, line 294: os.environ.get("PVE_MIGRATED_FROM", None), unset or the node
\* the VM migrates from.
PVE_MIGRATED_FROM == {NoNode, "pve2"}

\* The hook run for VM 101, started on this node or after a migration.
Invoke_hook(p, phases) == Invoke_main(p, {"101"}, phases, PVE_MIGRATED_FROM)

\* main, lines 293-295: parse_vm_config(vmid, from_node).
main_load(p) ==
    /\ proc[p].pc = "load"
    /\ LET file == conf[config_file(proc[p].vmid, proc[p].from_node)]
           parsed == parse_text(file)
       IN proc' = [proc EXCEPT ![p] =
              IF ~file.exists THEN Exit(@, 1, "")
              ELSE IF ~parsed.ok THEN Exit(@, 1, "ValueError")
              ELSE [@ EXCEPT !.config = parsed.dict, !.text = file,
                             !.pc = IF proc[p].phase = "get_command"
                                    THEN "get_command" ELSE "requirement"]]
    /\ UNCHANGED <<conf, devstat, occ, creatable, rt>>

\* main, lines 297-306: the preview.  `available_vgpu, gpu_id = <str>` unpacks
\* the device name character by character and needs exactly two of them.
main_get_command(p) ==
    /\ proc[p].pc = "get_command"
    /\ LET gpu == get_available_gpu(proc[p].vgpu_name)
           config_dict == proc[p].config
       IN proc' = [proc EXCEPT ![p] =
              IF gpu = "ValueError" THEN Exit(@, 1, "ValueError")
              ELSE IF gpu = "" THEN Exit(@, 404, "")
              ELSE IF NameLen(gpu) # 2 THEN Exit(@, 1, "ValueError")
              ELSE IF ~HasKey(config_dict, "smbios1") THEN Exit(@, 1, "KeyError")
              ELSE IF parse_line_config(Get(config_dict, "smbios1"), "uuid") = "ValueError"
                   THEN Exit(@, 1, "ValueError")
              ELSE Exit([@ EXCEPT !.printed = gpu], 0, "")]
    /\ UNCHANGED <<conf, devstat, occ, creatable, rt>>

\* main, lines 308-317: the requested types and device paths.
main_requirement(p) ==
    /\ proc[p].pc = "requirement"
    /\ LET config_dict == proc[p].config
       IN proc' = [proc EXCEPT ![p] =
              IF ~HasKey(config_dict, "tags") THEN Exit(@, 1, "KeyError")
              ELSE IF parse_vgpu_type_id(config_dict) = <<>> THEN Exit(@, 0, "")
              ELSE IF ~HasKey(config_dict, "args") THEN Exit(@, 1, "KeyError")
              ELSE IF parse_vgpu_bus_id(config_dict) = <<>> THEN Exit(@, 0, "")
              ELSE IF proc[p].phase \notin {"pre-start", "post-stop"} THEN Exit(@, 0, "")
              ELSE [@ EXCEPT !.vgpu_types = parse_vgpu_type_id(config_dict),
                             !.vgpu_paths = parse_vgpu_bus_id(config_dict),
                             !.i = 1,
                             !.pc = IF proc[p].phase = "pre-start"
                                    THEN "check" ELSE "post_stop"]]
    /\ UNCHANGED <<conf, devstat, occ, creatable, rt>>

\* open(f'{vgpu_path}/nvidia/current_vgpu_type', 'w') succeeds.
Writable(vgpu_path) == devstat[PathDev(vgpu_path)] = "ok"

\* stop without its except clause: a failed open() ends the process.
stop_uncaught(p, vgpu_path) ==
    IF Writable(vgpu_path)
    THEN /\ occ' = [occ EXCEPT ![PathDev(vgpu_path)] = Sentinel]
         /\ proc' = [proc EXCEPT ![p].devlog = Append(@, <<PathDev(vgpu_path), Sentinel>>),
                                 ![p].i = @ + 1]
    ELSE /\ occ' = occ
         /\ proc' = [proc EXCEPT ![p] = Exit(@, 1, "PermissionError")]

\* stop that resets every writable device, not only the one named.
stop_every(p, vgpu_path) ==
    /\ occ' = [d \in Devices |-> IF devstat[d] = "ok" THEN Sentinel ELSE occ[d]]
    /\ proc' = [proc EXCEPT ![p].devlog =
                    IF Writable(vgpu_path) THEN Append(@, <<PathDev(vgpu_path), Sentinel>>) ELSE @,
                            ![p].i = @ + 1]

\* stop that writes nothing.
stop_skipped(p, vgpu_path) ==
    /\ occ' = occ
    /\ proc' = [proc EXCEPT ![p].i = @ + 1]

\* stop(vgpu_path): write '0'; FileNotFoundError and PermissionError are
\* swallowed.
stop(p, vgpu_path) ==
    IF Writable(vgpu_path)
    THEN /\ occ' = [occ EXCEPT ![PathDev(vgpu_path)] = Sentinel]
         /\ proc' = [proc EXCEPT ![p].devlog = Append(@, <<PathDev(vgpu_path), Sentinel>>),
                                 ![p].i = @ + 1]
    ELSE /\ occ' = occ
         /\ proc' = [proc EXCEPT ![p].i = @ + 1]

\* main, lines 321-326: one turn of the first pre-start loop.
main_check(p) ==
    /\ proc[p].pc = "check"
    /\ IF proc[p].i > Len(proc[p].vgpu_paths)
       THEN /\ proc' = [proc EXCEPT ![p].pc = "activate", ![p].i = 1]
            /\ occ' = occ
       ELSE LET vgpu_path == proc[p].vgpu_paths[proc[p].i]
            IN IF devstat[PathDev(vgpu_path)] = "missing"
               THEN /\ proc' = [proc EXCEPT ![p] = Exit(@, 1, "")]
                    /\ occ' = occ
               ELSE stop(p, vgpu_path)
    /\ UNCHANGED <<conf, devstat, creatable, rt>>

\* The pairing without the modulo: devices past the last type get the last type.
type_for_clamped(vgpu_types, i) == vgpu_types[Min2(i, Len(vgpu_types) - 1) + 1]

\* vgpu_types[i % len(vgpu_types)] for the 0-based i of the code.
type_for(vgpu_types, i) == vgpu_types[(i % Len(vgpu_types)) + 1]

\* The devices activated before the failing index reset again.
rolled_back(vgpu_paths, i) ==
    [d \in Devices |-> IF d \in {PathDev(vgpu_paths[j]) : j \in 1..(i - 1)}
                       THEN Sentinel ELSE occ[d]]

\* What the devices hold when the open() of the 1-based index i raises: the
\* exception leaves main, nothing written so far is undone.
left_on_failure(vgpu_paths, i) == occ

\* main, lines 329-334: one turn of the activation loop; a failed open() is
\* not caught.
main_activate(p) ==
    /\ proc[p].pc = "activate"
    /\ IF proc[p].i > Len(proc[p].vgpu_paths)
       THEN /\ proc' = [proc EXCEPT ![p] = Exit(@, 0, "")]
            /\ occ' = occ
       ELSE LET vgpu_path == proc[p].vgpu_paths[proc[p].i]
                vgpu_type == type_for(proc[p].vgpu_types, proc[p].i - 1)
            IN IF Writable(vgpu_path)
               THEN /\ occ' = [occ EXCEPT ![PathDev(vgpu_path)] = vgpu_type]
                    /\ proc' = [proc EXCEPT
                           ![p].devlog = Append(@, <<PathDev(vgpu_path), vgpu_type>>),
                           ![p].i = @ + 1]
               ELSE /\ proc' = [proc EXCEPT ![p] = Exit(@, 1, "PermissionError")]
                    /\ occ' = left_on_failure(proc[p].vgpu_paths, proc[p].i)
    /\ UNCHANGED <<conf, devstat, creatable, rt>>

\* main, lines 336-338, then sys.exit(0) of line 354.
main_post_stop(p) ==
    /\ proc[p].pc = "post_stop"
    /\ IF proc[p].i > Len(proc[p].vgpu_paths)
       THEN /\ proc' = [proc EXCEPT ![p] = Exit(@, 0, "")]
            /\ occ' = occ
       ELSE stop(p, proc[p].vgpu_paths[proc[p].i])
    /\ UNCHANGED <<conf, devstat, creatable, rt>>

\* -------------------------------------------------------------- assignment
\* (vmid, node) pairs as VMS.sort() orders the tuples: by vmid, then by node.
VmLess(a, b) == StrLess(a[1], b[1]) \/ (a[1] = b[1] /\ StrLess(a[2], b[2]))

RECURSIVE sorted_vms(_)
sorted_vms(S) ==
    IF S = {} THEN <<>>
    ELSE LET m == CHOOSE x \in S : \A y \in S \ {x} : VmLess(x, y)
         IN <<m>> \o sorted_vms(S \ {m})

\* get_vms: one (vmid, node) per .conf file of every node, sorted; the
\* config of each is parse_vm_config(vmid, node).
get_vms == sorted_vms({<<f[2], f[1]>> : f \in {g \in VmFiles : conf[g].exists}})
vm_config(vm) == parse_text(conf[<<vm[2], vm[1]>>])

\* next((vm[2] for vm in vms if vm[0] == vmid), None); <<>> stands for None
\* too, as `not config` takes both.
select_config(vms, vmid) ==
    LET hits == SelectSeq(vms, LAMBDA vm : vm[1] = vmid)
    IN IF hits = <<>> THEN <<>> ELSE vm_config(Head(hits)).dict

\* The text parse_vm_config read for the VM that select_config picks.
select_text(vms, vmid) ==
    LET hits == SelectSeq(vms, LAMBDA vm : vm[1] = vmid)
    IN IF hits = <<>> THEN NoDescriptor ELSE conf[<<Head(hits)[2], Head(hits)[1]>>]

\* The list started empty whatever args hold.
arguments_fresh(config) == <<>>

\* config['args'].split(' ') as a list of one-word elements, [] for no args.
arguments_of(config) ==
    IF HasKey(config, "args") /\ Get(config, "args") # <<"">>
    THEN [k \in 1..Len(Get(config, "args")) |-> <<Get(config, "args")[k]>>]
    ELSE <<>>

\* The check made on the element as it is appended, option name included:
\* split(' ') never yields it.
already_assigned_whole(config, gpu) == DeviceOption(gpu) \in Range(arguments_of(config))

\* f'vfio-pci,sysfsdev=/sys/bus/pci/devices/{gpu}' in arguments
already_assigned(config, gpu) == <<DevWord(gpu)>> \in Range(arguments_of(config))

\* The uuid appended whatever the arguments hold.
needs_uuid_always(config) == TRUE

\* '-uuid' not in arguments
needs_uuid(config) == <<"-uuid">> \notin Range(arguments_of(config))

\* ' '.join(arguments) after the appends of lines 149-153.
assign_args(config, gpu, uuid) ==
    Flatten(arguments_of(config) \o <<DeviceOption(gpu)>>
            \o (IF needs_uuid(config) THEN <<(<<"-uuid", uuid>>)>> ELSE <<>>))

\* The labels kept as a list: the new one appended, nothing sorted or merged.
assign_tags_appended(config, gpu_type) ==
    (IF HasKey(config, "tags") /\ Get(config, "tags") # <<"">>
     THEN Get(config, "tags") ELSE <<>>) \o <<NvidiaLabel(gpu_type)>>

\* ';'.join(sorted(tags)) of lines 160-166.
assign_tags(config, gpu_type) ==
    sorted_set((IF HasKey(config, "tags") /\ Get(config, "tags") # <<"">>
                THEN Range(Get(config, "tags")) \ {""} ELSE {})
               \cup {NvidiaLabel(gpu_type)})

HookScript == <<"local:snippets/nvidia_allocator.py">>

\* The hookscript set whatever the descriptor holds.
assign_hookscript_always(config) == HookScript

\* Lines 157-158.
assign_hookscript(config) ==
    IF ~HasKey(config, "hookscript") \/ Get(config, "hookscript") = <<"">>
    THEN HookScript ELSE Get(config, "hookscript")

\* The uuid looked up with a default instead of config['smbios1'].
uuid_or_none(config) ==
    IF ~HasKey(config, "smbios1") THEN "None"
    ELSE parse_line_config(Get(config, "smbios1"), "uuid")

\* parse_line_config(config['smbios1'], 'uuid'), or the exception raised.
uuid_of(config) ==
    IF ~HasKey(config, "smbios1") THEN "KeyError"
    ELSE parse_line_config(Get(config, "smbios1"), "uuid")

\* The mapping assign_gpu saves (lines 155-166).
assigned_config(config, gpu, gpu_type) ==
    Put(Put(Put(config, "args", assign_args(config, gpu, uuid_of(config))),
            "hookscript", assign_hookscript(config)),
        "tags", assign_tags(config, gpu_type))

AssignTypes == {"63", "100"}
AssignDevices == {"0000:01:00.0", "0000:02:00.0"}

\* assign_gpu(vmid, node, gpu, gpu_type) is called in a process of its own.
Invoke_assign(p) ==
    /\ proc[p].pc = "idle"
    /\ \E vmid \in VmIds, gpu \in AssignDevices, gpu_type \in AssignTypes :
           proc' = [proc EXCEPT ![p] =
               [IdleProc EXCEPT !.pc = "get_vms", !.kind = "assign", !.vmid = vmid,
                                !.node = LocalNode, !.gpu = gpu, !.gpu_type = gpu_type]]
    /\ UNCHANGED <<conf, devstat, occ, creatable, rt>>

\* assign_gpu, lines 134-139: the descriptors are read and the VM's config picked.
assign_get_vms(p) ==
    /\ proc[p].pc = "get_vms"
    /\ LET vms == get_vms
           config == select_config(vms, proc[p].vmid)
       IN proc' = [proc EXCEPT ![p] =
              IF \E k \in 1..Len(vms) : ~vm_config(vms[k]).ok THEN Exit(@, 1, "ValueError")
              ELSE IF config = <<>> THEN Exit(@, 1, "")
              ELSE [@ EXCEPT !.config = config, !.text = select_text(vms, proc[p].vmid),
                             !.pc = "assign"]]
    /\ UNCHANGED <<conf, devstat, occ, creatable, rt>>

\* The first descriptor file, whatever the call names.
target_first(node, vmid) == <<LocalNode, "101">>

\* config_file = f'/etc/pve/nodes/{node}/qemu-server/{vmid}.conf'
target_file(node, vmid) == <<node, vmid>>

\* assign_gpu, lines 141-168: return when the device is there already, else
\* build the new mapping and open the descriptor file for writing, which
\* leaves it empty until the lines are written.
assign_gpu(p) ==
    /\ proc[p].pc = "assign"
    /\ LET config == proc[p].config
           target == target_file(proc[p].node, proc[p].vmid)
       IN IF already_assigned(config, proc[p].gpu)
          THEN /\ proc' = [proc EXCEPT ![p].pc = "returned"]
               /\ conf' = conf
          ELSE IF needs_uuid(config) /\ uuid_of(config) \in {"KeyError", "ValueError"}
          THEN /\ proc' = [proc EXCEPT ![p] = Exit(@, 1, uuid_of(config))]
               /\ conf' = conf
          ELSE /\ conf' = [conf EXCEPT ![target] = Descriptor(<<>>, FALSE)]
               /\ proc' = [proc EXCEPT ![p].pc = "save"]
    /\ UNCHANGED <<devstat, occ, creatable, rt>>

\* assign_gpu, lines 169-172: the save loop, the close that puts the buffered
\* lines into the file in one write, and sys.exit(0).
assign_save(p) ==
    /\ proc[p].pc = "save"
    /\ LET target == target_file(proc[p].node, proc[p].vmid)
           saved == serialize(assigned_config(proc[p].config, proc[p].gpu, proc[p].gpu_type))
       IN /\ conf' = [conf EXCEPT ![target] = Descriptor(saved.lines, saved.nl)]
          /\ proc' = [proc EXCEPT ![p] =
                 Exit([@ EXCEPT !.conflog = Append(@, [file |-> target, text |-> saved])],
                      0, "")]
    /\ UNCHANGED <<devstat, occ, creatable, rt>>

\* ------------------------------------------------- the lifecycle hook runs
\* The values a string of at most `max` pieces over S can take ("" included).
Strings(S, max) == {<<"">>} \cup SeqsOf(S, 1, max)

HookLabels == {"nvidia-63", "nvidia-100"}
HookTags == Strings(HookLabels, MaxTags)
HookArgs ==
    {<<"">>} \cup {Flatten(es) : es \in SeqsOf({DeviceOption(d) : d \in Devices}, 1, MaxArgs)}

Optional(key, values) == {<<>>} \cup {<<KV(key, v)>> : v \in values}

\* The descriptors of VM 101 the hook is run on: with or without args and tags.
HookDescriptors ==
    {Descriptor(<<KV("name", <<"render">>), KV("smbios1", <<"uuid=1234">>)>> \o a \o t, TRUE) :
        a \in Optional("args", HookArgs), t \in Optional("tags", HookTags)}

\* The device tree: any device may be missing or read-only; one that exists
\* holds the type an earlier start left in it.
DeviceTrees ==
    {tree \in [Devices -> {"missing", "ro", "ok"} \X {NoFile, "64"}] :
        \A d \in Devices : (tree[d][1] = "missing") <=> (tree[d][2] = NoFile)}

FixedCreatable ==
    [d \in Devices |-> IF d = "0000:02:00.0" THEN <<"64">> ELSE <<"63", "64">>]

NoRoundTrip == [done |-> FALSE, ok |-> FALSE, text |-> NoDescriptor]

Init ==
    /\ \E desc \in HookDescriptors :
           conf = [f \in VmFiles |-> IF f = <<LocalNode, "101">> THEN desc ELSE NoDescriptor]
    /\ \E tree \in DeviceTrees :
           /\ devstat = [d \in Devices |-> tree[d][1]]
           /\ occ = [d \in Devices |-> tree[d][2]]
    /\ creatable = FixedCreatable
    /\ proc = [p \in Procs |-> IdleProc]
    /\ rt = NoRoundTrip

Next ==
    \/ Invoke_hook("p1", LifecyclePhases)
    \/ main_load("p1")
    \/ main_requirement("p1")
    \/ main_check("p1")
    \/ main_activate("p1")
    \/ main_post_stop("p1")

Spec == Init /\ [][Next]_vars

\* ------------------------------------------------------ terms of the claims
Ended(p) == proc[p].pc = "exited"

\* The mapping the process loaded, read again from the file it opened.
Loaded(p) == parse_text(conf[config_file(proc[p].vmid, proc[p].from_node)])
Loads(p) == conf[config_file(proc[p].vmid, proc[p].from_node)].exists /\ Loaded(p).ok

\* The requested types (sorted) and device paths of a loaded descriptor; a
\* descriptor without the key requests none.
RequestedTypes(p) ==
    IF HasKey(Loaded(p).dict, "tags")
    THEN sorted(type_matches(Get(Loaded(p).dict, "tags"))) ELSE <<>>
RequestedPaths(p) ==
    IF HasKey(Loaded(p).dict, "args")
    THEN bus_matches(Get(Loaded(p).dict, "args")) ELSE <<>>

Exists(path) == devstat[PathDev(path)] # "missing"

\* The process runs the phase's transition: the descriptor loaded and both
\* request lists are non-empty.
InTransition(p, phase) ==
    /\ proc[p].kind = "hook" /\ proc[p].phase = phase
    /\ proc[p].pc \in {"check", "activate", "post_stop", "exited"}
    /\ Loads(p) /\ RequestedTypes(p) # <<>> /\ RequestedPaths(p) # <<>>

\* ----------------------------------------------------------------- claims
\* C1 (as claimed): when some requested device path does not exist, pre-start
\* writes to no requested device at all, neither '0' nor a type, and ends
\* with a non-zero status.
C1_NoWriteWhenAPathIsMissing ==
    \A p \in Procs :
        (InTransition(p, "pre-start") /\ \E k \in 1..Len(RequestedPaths(p)) :
                                            ~Exists(RequestedPaths(p)[k]))
        => /\ proc[p].devlog = <<>>
           /\ Ended(p) => proc[p].exitcode # 0

\* C3 (as claimed): when every requested path exists, after pre-start device
\* i holds types[i mod len(types)], for every index i of the request.
C3_FinalValueAtEveryIndex ==
    \A p \in Procs :
        (Ended(p) /\ InTransition(p, "pre-start")
         /\ \A k \in 1..Len(RequestedPaths(p)) : Exists(RequestedPaths(p)[k]))
        => \A k \in 1..Len(RequestedPaths(p)) :
               occ[PathDev(RequestedPaths(p)[k])]
                   = RequestedTypes(p)[((k - 1) % Len(RequestedTypes(p))) + 1]

\* C3 (amended): when pre-start runs to its end (status 0), it has written, after
\* the resets, types[i mod len(types)] to device i for each index i in request
\* order, types being the sorted requested type ids; so a device ends with the
\* type of the last index it is requested at.
C3_RoundRobin ==
    \A p \in Procs :
        (Ended(p) /\ proc[p].exitcode = 0 /\ InTransition(p, "pre-start"))
        => LET paths == RequestedPaths(p)
               types == RequestedTypes(p)
               n == Len(paths)
           IN /\ Len(proc[p].devlog) = 2 * n
              /\ \A k \in 1..n :
                    /\ proc[p].devlog[n + k]
                           = <<PathDev(paths[k]), types[((k - 1) % Len(types)) + 1]>>
                    /\ (\A j \in (k + 1)..n : paths[j] # paths[k])
                           => occ[PathDev(paths[k])] = types[((k - 1) % Len(types)) + 1]

\* C3 witness: three distinct devices and two different types, activated.
C3_Witness ==
    \E p \in Procs :
        /\ InTransition(p, "pre-start") /\ Ended(p) /\ proc[p].exitcode = 0
        /\ Len(RequestedPaths(p)) = 3 /\ Cardinality(Range(RequestedPaths(p))) = 3
        /\ RequestedTypes(p) = <<"100", "63">>
        /\ occ[PathDev(RequestedPaths(p)[3])] = "100"

\* C4 (as claimed): pre-start or post-stop on a descriptor that loads, with no
\* requested type or no requested device (the key may be absent), ends with
\* status 0 and writes nothing.
C4_NoRequirementIsANoOp ==
    \A p \in Procs :
        (proc[p].kind = "hook" /\ proc[p].phase \in {"pre-start", "post-stop"}
         /\ Ended(p) /\ Loads(p)
         /\ (RequestedTypes(p) = <<>> \/ RequestedPaths(p) = <<>>))
        => proc[p].exitcode = 0 /\ proc[p].devlog = <<>> /\ proc[p].conflog = <<>>

\* C5: the post-stop transition ends with status 0 whichever requested paths
\* are missing or not writable, and every requested device that is writable
\* has had '0' written to it and holds it.
C5_DeallocationTolerance ==
    \A p \in Procs :
        (Ended(p) /\ InTransition(p, "post-stop"))
        => /\ proc[p].exitcode = 0
           /\ \A k \in 1..Len(RequestedPaths(p)) :
                  devstat[PathDev(RequestedPaths(p)[k])] = "ok"
                  => /\ occ[PathDev(RequestedPaths(p)[k])] = Sentinel
                     /\ <<PathDev(RequestedPaths(p)[k]), Sentinel>> \in Range(proc[p].devlog)

\* C5 witness: a missing path first, a read-only one next, a writable one last.
C5_Witness ==
    \E p \in Procs :
        /\ InTransition(p, "post-stop") /\ Ended(p) /\ proc[p].exitcode = 0
        /\ Len(RequestedPaths(p)) = 3
        /\ devstat[PathDev(RequestedPaths(p)[1])] = "missing"
        /\ devstat[PathDev(RequestedPaths(p)[2])] = "ro"
        /\ devstat[PathDev(RequestedPaths(p)[3])] = "ok"
        /\ occ[PathDev(RequestedPaths(p)[3])] = Sentinel

\* ------------------------------------------------------ the assignment runs
AssignOptions == {DeviceOption("0000:01:00.0"), <<"-uuid", "1234">>}
AssignArgs == {<<"">>} \cup {Flatten(es) : es \in SeqsOf(AssignOptions, 1, MaxOpts)}
AssignTags == Strings({"", "prod", "nvidia-63"}, MaxTags)
AssignSmbios == {<<"uuid=1234">>, <<"uuid">>, <<"base64=1">>}
AssignHooks == {<<"local:snippets/other.pl">>}

\* The descriptors of VM 101 that assign_gpu is run on, keys in the
\* alphabetical order the hypervisor writes them in.
AssignDescriptors ==
    {Descriptor(a \o h \o <<KV("name", <<"render">>)>> \o u \o t, TRUE) :
        a \in Optional("args", AssignArgs), h \in Optional("hookscript", AssignHooks),
        u \in Optional("smbios1", AssignSmbios), t \in Optional("tags", AssignTags)}

\* After boot every device is there, writable and unoccupied.
FreshTree == [d \in Devices |-> <<"ok", Sentinel>>]

InitAssign ==
    /\ \E desc \in AssignDescriptors :
           conf = [f \in VmFiles |-> IF f = <<LocalNode, "101">> THEN desc ELSE NoDescriptor]
    /\ devstat = [d \in Devices |-> FreshTree[d][1]]
    /\ occ = [d \in Devices |-> FreshTree[d][2]]
    /\ creatable = FixedCreatable
    /\ proc = [p \in Procs |-> IdleProc]
    /\ rt = NoRoundTrip

Finished(p) == proc[p].pc \in {"exited", "returned"}

\* The processes run one after the other: p1, then p2.
Turn(p) == p = "p1" \/ Finished("p1")

NextAssign ==
    \E p \in {"p1", "p2"} :
        \/ Turn(p) /\ Invoke_assign(p)
        \/ assign_get_vms(p)
        \/ assign_gpu(p)
        \/ assign_save(p)

SpecAssign == InitAssign /\ [][NextAssign]_vars

\* One process, run as an assignment or as a lifecycle hook.
NextOne ==
    \/ Invoke_assign("p1")
    \/ assign_get_vms("p1")
    \/ assign_gpu("p1")
    \/ assign_save("p1")
    \/ Invoke_hook("p1", LifecyclePhases)
    \/ main_load("p1")
    \/ main_requirement("p1")
    \/ main_check("p1")
    \/ main_activate("p1")
    \/ main_post_stop("p1")

SpecOne == InitAssign /\ [][NextOne]_vars

\* ------------------------------------------------- terms of the assign claims
\* The call wrote the descriptor (once: it exits right after).
Wrote(p) == proc[p].kind = "assign" /\ Len(proc[p].conflog) = 1

\* The value saved under a key by the call's write.
SavedValue(p, key) ==
    LET ls == proc[p].conflog[1].text.lines
    IN ls[CHOOSE k \in 1..Len(ls) : ls[k].key = key].val

\* The words of args, and the non-empty labels of tags, as the call found them.
OldWords(p) ==
    IF HasKey(proc[p].config, "args") /\ Get(proc[p].config, "args") # <<"">>
    THEN Get(proc[p].config, "args") ELSE <<>>
OldLabels(p) ==
    IF HasKey(proc[p].config, "tags") THEN Range(Get(proc[p].config, "tags")) \ {""} ELSE {}

OldSmbios(p) ==
    IF HasKey(proc[p].config, "smbios1") THEN Get(proc[p].config, "smbios1") ELSE <<>>

\* smbios1 is there and every item of it is key=value.
SmbiosParses(p) ==
    /\ HasKey(proc[p].config, "smbios1")
    /\ \A k \in 1..Len(Get(proc[p].config, "smbios1")) :
           Get(proc[p].config, "smbios1")[k] \in {"uuid=1234", "base64=1"}

\* C2: after an assign_gpu that wrote device D into a VM's descriptor, a second
\* assign_gpu of D to that VM, with any type, returns without writing and the
\* file is still exactly what the first call wrote.
C2_AssignIdempotent ==
    (/\ Wrote("p1") /\ proc["p2"].kind = "assign" /\ Finished("p2")
     /\ proc["p2"].vmid = proc["p1"].vmid /\ proc["p2"].gpu = proc["p1"].gpu)
    => /\ proc["p2"].pc = "returned"
       /\ proc["p2"].conflog = <<>>
       /\ conf[<<proc["p1"].node, proc["p1"].vmid>>]
              = Descriptor(proc["p1"].conflog[1].text.lines, proc["p1"].conflog[1].text.nl)

\* C2 witness: the second call names another type than the first.
C2_Witness ==
    /\ Wrote("p1") /\ proc["p2"].kind = "assign" /\ Finished("p2")
    /\ proc["p2"].vmid = proc["p1"].vmid /\ proc["p2"].gpu = proc["p1"].gpu
    /\ proc["p2"].gpu_type # proc["p1"].gpu_type

\* C8: a call on args without D's token saves the previous words, then
\* `-device vfio-pci,sysfsdev=/sys/bus/pci/devices/D`, then `-uuid <uuid of
\* smbios1>` exactly when no -uuid word was there; with no args and smbios1
\* uuid=1234 the saved args are exactly the two options; and every call that
\* finds the descriptor, no such token and a uuid (in args or smbios1) writes.
C8_AssignedArgs ==
    \A p \in Procs :
        /\ Wrote(p) =>
              LET old == OldWords(p)
                  new == SavedValue(p, "args")
                  option == <<"-device", DevWord(proc[p].gpu)>>
              IN /\ DevWord(proc[p].gpu) \notin Range(old)
                 /\ "-uuid" \in Range(old) => new = old \o option
                 /\ "-uuid" \notin Range(old) =>
                        /\ Len(new) = Len(old) + 4
                        /\ SubSeq(new, 1, Len(old) + 3) = old \o option \o <<"-uuid">>
                        /\ "uuid=1234" \in Range(OldSmbios(p))
                               => new[Len(new)] = "1234"
                 /\ (old = <<>> /\ OldSmbios(p) = <<"uuid=1234">>)
                        => new = <<"-device", DevWord(proc[p].gpu), "-uuid", "1234">>
        /\ (/\ proc[p].kind = "assign" /\ Finished(p) /\ proc[p].config # <<>>
            /\ DevWord(proc[p].gpu) \notin Range(OldWords(p))
            /\ ("-uuid" \in Range(OldWords(p)) \/ SmbiosParses(p)))
           => Wrote(p) /\ proc[p].exitcode = 0

\* C8 witness: a second device is added to args that hold a device and a -uuid.
C8_Witness ==
    \E p \in Procs :
        /\ Wrote(p) /\ "-uuid" \in Range(OldWords(p))
        /\ DevWords \cap Range(OldWords(p)) # {}
        /\ Len(SavedValue(p, "args")) = Len(OldWords(p)) + 2

\* C9: the tags a call saves are the previous non-empty labels and nvidia-T,
\* each once, in ascending order, joined by ';'.
C9_AssignedTags ==
    \A p \in Procs :
        Wrote(p) =>
            LET new == SavedValue(p, "tags")
            IN /\ Range(new) = OldLabels(p) \cup {NvidiaLabel(proc[p].gpu_type)}
               /\ "" \notin Range(new)
               /\ \A j, k \in 1..Len(new) : j < k => StrLess(new[j], new[k])

\* C9 witness: tags were "prod;" and the new label sorts before the old one.
C9_Witness ==
    \E p \in Procs :
        /\ Wrote(p)
        /\ HasKey(proc[p].config, "tags") /\ Get(proc[p].config, "tags") = <<"prod", "">>
        /\ SavedValue(p, "tags") = <<"nvidia-63", "prod">>

\* C10: an assign_gpu that finds no descriptor for the VM, or must synthesize a
\* uuid and finds smbios1 missing or unparseable, ends with a non-zero status
\* without writing, the file still holding what was loaded; a hook run for a
\* VM whose descriptor file does not exist ends with status 1 and no write.
C10_NoPartialWrite ==
    \A p \in Procs :
        Ended(p) =>
            /\ (/\ proc[p].kind = "assign"
                /\ \A n \in Nodes : ~conf[<<n, proc[p].vmid>>].exists)
               => proc[p].exitcode # 0 /\ proc[p].conflog = <<>>
            /\ (/\ proc[p].kind = "assign" /\ proc[p].config # <<>>
                /\ DevWord(proc[p].gpu) \notin Range(OldWords(p))
                /\ "-uuid" \notin Range(OldWords(p)) /\ ~SmbiosParses(p))
               => /\ proc[p].exitcode # 0 /\ proc[p].conflog = <<>>
                  /\ parse_text(conf[<<proc[p].node, proc[p].vmid>>]).dict = proc[p].config
            /\ (/\ proc[p].kind = "hook"
                /\ ~conf[config_file(proc[p].vmid, proc[p].from_node)].exists)
               => proc[p].exitcode = 1 /\ proc[p].devlog = <<>> /\ proc[p].conflog = <<>>

\* C10 witness: args hold a device but no -uuid, and there is no smbios1.
C10_Witness ==
    \E p \in Procs :
        /\ Ended(p) /\ proc[p].kind = "assign" /\ proc[p].exc = "KeyError"
        /\ DevWords \cap Range(OldWords(p)) # {}

\* ----------------------------------------------------------- the preview runs
PreviewDescriptors ==
    {Descriptor(<<KV("name", <<"render">>)>> \o u \o t, TRUE) :
        u \in Optional("smbios1", {<<"uuid=1234">>}), t \in Optional("tags", {<<"prod">>})}

\* The device tree a scan reads: a device that is there is free or occupied
\* and lists the types that can be created on it.
ScanTrees ==
    {tree \in [Devices -> {"missing", "ok"} \X {NoFile, Sentinel, "64"}
                          \X {<<>>, <<"63">>, <<"64", "63">>}] :
        \A d \in Devices :
            /\ (tree[d][1] = "missing") <=> (tree[d][2] = NoFile)
            /\ tree[d][1] = "missing" => tree[d][3] = <<>>}

InitPreview ==
    /\ \E desc \in PreviewDescriptors :
           conf = [f \in VmFiles |-> IF f = <<LocalNode, "101">> THEN desc ELSE NoDescriptor]
    /\ \E tree \in ScanTrees :
           /\ devstat = [d \in Devices |-> tree[d][1]]
           /\ occ = [d \in Devices |-> tree[d][2]]
           /\ creatable = [d \in Devices |-> tree[d][3]]
    /\ proc = [p \in Procs |-> IdleProc]
    /\ rt = NoRoundTrip

NextPreview ==
    \/ Invoke_hook("p1", {"get_command"})
    \/ main_load("p1")
    \/ main_get_command("p1")

SpecPreview == InitPreview /\ [][NextPreview]_vars

\* The free devices that offer a type, by their place in the listing.
FreeOffering(t) ==
    {k \in 1..Len(DeviceOrder) :
        /\ devstat[DeviceOrder[k]] # "missing"
        /\ occ[DeviceOrder[k]] = Sentinel
        /\ t \in Range(creatable[DeviceOrder[k]])}

\* C7 (as claimed): the preview for type T on a VM whose descriptor loads ends
\* with status 0 having named the first free device, in scan order, that
\* offers T, and ends with exit(404) when no free device offers T.
C7_PreviewOutcome ==
    \A p \in Procs :
        (Ended(p) /\ proc[p].kind = "hook" /\ proc[p].phase = "get_command" /\ Loads(p))
        => LET offering == FreeOffering(proc[p].vgpu_name)
           IN /\ offering # {} =>
                    /\ proc[p].exitcode = 0
                    /\ proc[p].printed
                           = DeviceOrder[CHOOSE k \in offering : \A j \in offering : k <= j]
              /\ offering = {} => proc[p].exitcode = 404 % 256

\* ------------------------------------------------- the parse/serialize check
TextLines ==
    {KV("name", <<"render">>), KV("name", <<"other">>), KV("tags", <<"prod">>),
     Line("", 0, <<>>), Line("#vm for render jobs", 0, <<>>), Line("[snap1]", 0, <<>>),
     Line("name", 0, <<>>), Line("name", 2, <<"render">>)}

Texts ==
    {file \in {Descriptor(ls, nl) : ls \in SeqsOf(TextLines, 0, MaxLines), nl \in BOOLEAN} :
        IsText(file)}

InitParse ==
    /\ \E text \in Texts :
           conf = [f \in VmFiles |-> IF f = <<LocalNode, "101">> THEN text ELSE NoDescriptor]
    /\ devstat = [d \in Devices |-> FreshTree[d][1]]
    /\ occ = [d \in Devices |-> FreshTree[d][2]]
    /\ creatable = FixedCreatable
    /\ proc = [p \in Procs |-> IdleProc]
    /\ rt = NoRoundTrip

\* parse_vm_config on the text, then the save loop on the mapping it returns.
round_trip ==
    /\ ~rt.done
    /\ LET parsed == parse_text(conf[<<LocalNode, "101">>])
           saved == serialize(parsed.dict)
       IN rt' = [done |-> TRUE, ok |-> parsed.ok,
                 text |-> IF parsed.ok THEN Descriptor(saved.lines, saved.nl)
                          ELSE NoDescriptor]
    /\ UNCHANGED <<conf, devstat, occ, creatable, proc>>

NextParse == round_trip

SpecParse == InitParse /\ [][NextParse]_vars

\* The keys of the text's lines, skipped lines left out, in the order read.
RECURSIVE TextKeys(_)
TextKeys(lines) ==
    IF lines = <<>> THEN <<>>
    ELSE (IF Skipped(Head(lines)) THEN <<>> ELSE <<Head(lines).key>>) \o TextKeys(Tail(lines))

\* Canonical order: no key twice, keys ascending as the hypervisor writes them.
Canonical(file) ==
    \A j, k \in 1..Len(TextKeys(file.lines)) :
        j < k => StrLess(TextKeys(file.lines)[j], TextKeys(file.lines)[k])

\* C6 (as claimed): for a newline-terminated text without blank lines that
\* parse_vm_config accepts, with at least one key and its keys in canonical
\* order, the save loop applied to the parsed mapping writes the text back
\* byte for byte.
C6_RoundTrip ==
    (/\ rt.done /\ rt.ok
     /\ conf[<<LocalNode, "101">>].nl /\ Canonical(conf[<<LocalNode, "101">>])
     /\ TextKeys(conf[<<LocalNode, "101">>].lines) # <<>>
     /\ \A k \in 1..Len(conf[<<LocalNode, "101">>].lines) :
            conf[<<LocalNode, "101">>].lines[k] # Line("", 0, <<>>))
    => rt.text = conf[<<LocalNode, "101">>]

\* ------------------------------------------ assignments one after the other
\* The descriptors of VM 101 a first assignment finds: no device in args yet,
\* with or without a hookscript, tags, and a snapshot section after the keys.
SeqHooks == {<<"">>, <<"local:snippets/other.pl">>}
SeqSnapshots == {<<>>, <<Line("[snap1]", 0, <<>>), KV("name", <<"old">>)>>}

SeqDescriptors ==
    {Descriptor(a \o h \o <<KV("name", <<"render">>), KV("smbios1", <<"uuid=1234">>)>>
                \o t \o snap, TRUE) :
        a \in Optional("args", {<<"">>}), h \in Optional("hookscript", SeqHooks),
        t \in Optional("tags", {<<"prod">>}), snap \in SeqSnapshots}

InitSeq ==
    /\ \E desc \in SeqDescriptors :
           conf = [f \in VmFiles |-> IF f = <<LocalNode, "101">> THEN desc ELSE NoDescriptor]
    /\ devstat = [d \in Devices |-> FreshTree[d][1]]
    /\ occ = [d \in Devices |-> FreshTree[d][2]]
    /\ creatable = FixedCreatable
    /\ proc = [p \in Procs |-> IdleProc]
    /\ rt = NoRoundTrip

\* The processes run one after the other: p1, then p2, then p3.
TurnSeq(p) ==
    \/ p = "p1"
    \/ p = "p2" /\ Finished("p1")
    \/ p = "p3" /\ Finished("p2")

\* Up to three assignments in a row, the last process being an assignment or
\* the pre-start hook of the VM.
NextSeq ==
    \/ \E p \in Procs :
        \/ TurnSeq(p) /\ Invoke_assign(p)
        \/ assign_get_vms(p)
        \/ assign_gpu(p)
        \/ assign_save(p)
    \/ TurnSeq("p3") /\ Invoke_main("p3", {"101"}, {"pre-start"}, {NoNode})
    \/ main_load("p3")
    \/ main_requirement("p3")
    \/ main_check("p3")
    \/ main_activate("p3")

SpecSeq == InitSeq /\ [][NextSeq]_vars

\* ------------------------------------------- terms of the pass-through claim
\* The `key: value` lines of a text whose key assign_gpu does not set, as
\* <<key, value>> in file order.
RECURSIVE OtherLines(_)
OtherLines(lines) ==
    IF lines = <<>> THEN <<>>
    ELSE (IF Skipped(Head(lines)) \/ Head(lines).key \in {"args", "tags", "hookscript"}
          THEN <<>> ELSE <<(<<Head(lines).key, Head(lines).val>>)>>)
         \o OtherLines(Tail(lines))

\* Every element of a appears in b, in the same relative order.
RECURSIVE IsSubSeq(_, _)
IsSubSeq(a, b) ==
    IF a = <<>> THEN TRUE
    ELSE IF b = <<>> THEN FALSE
    ELSE IF Head(a) = Head(b) THEN IsSubSeq(Tail(a), Tail(b))
    ELSE IsSubSeq(a, Tail(b))

\* C11 (as claimed): after an assign_gpu that wrote, every `key: value` line of
\* the file as the call read it whose key is not args, tags or hookscript is
\* in the rewritten file with the same value, in the same relative order.
C11_UnknownKeysPassThrough ==
    \A p \in Procs :
        Wrote(p) => IsSubSeq(OtherLines(proc[p].text.lines),
                             OtherLines(proc[p].conflog[1].text.lines))

\* ------------------------------------------------ terms of the sequence claims
\* The assignment calls in the order they ran, and those of them that wrote.
CallOrder == <<"p1", "p2", "p3">>
Writers == SelectSeq(CallOrder, LAMBDA p : Wrote(p))

\* No call is between opening the file and writing it.
NoSaveUnderWay == \A p \in Procs : proc[p].pc # "save"

\* The hookscript value a call found, <<"">> when the key was absent.
OldHook(p) ==
    IF HasKey(proc[p].config, "hookscript") THEN Get(proc[p].config, "hookscript") ELSE <<"">>

\* The value under a key in the VM's descriptor file as it is now.
FileValue(key) == Get(parse_text(conf[<<LocalNode, "101">>]).dict, key)

Count(words, w) == Cardinality({k \in 1..Len(words) : words[k] = w})

\* C17: a call that wrote leaves a non-empty hookscript: the one it found when
\* that was non-empty, this tool's own path otherwise; and a non-empty
\* hookscript that some call found is what every call saved and what the file
\* holds after any sequence of calls.
C17_HookSelfInstall ==
    \A p \in Procs :
        Wrote(p) =>
            /\ SavedValue(p, "hookscript") # <<"">>
            /\ OldHook(p) # <<"">> => SavedValue(p, "hookscript") = OldHook(p)
            /\ OldHook(p) = <<"">> => SavedValue(p, "hookscript") = HookScript
            /\ \A q \in Procs :
                   (Wrote(q) /\ OldHook(q) # <<"">>)
                   => SavedValue(p, "hookscript") = OldHook(q)
            /\ NoSaveUnderWay => FileValue("hookscript") = SavedValue(p, "hookscript")

\* C17 witness: two calls wrote a descriptor that named another hook script,
\* and it still names it.
C17_Witness ==
    /\ Wrote("p1") /\ Wrote("p2") /\ NoSaveUnderWay
    /\ OldHook("p1") = <<"local:snippets/other.pl">>
    /\ FileValue("hookscript") = <<"local:snippets/other.pl">>

\* C18 (as claimed): after two assign_gpu calls that each wrote a device with
\* its type into the VM's descriptor, a pre-start that ends with status 0 has
\* left each of the two devices holding the type it was assigned with.
C18_TypeFidelity ==
    (/\ Wrote("p1") /\ Wrote("p2")
     /\ proc["p3"].kind = "hook" /\ Ended("p3") /\ proc["p3"].exitcode = 0)
    => /\ occ[proc["p1"].gpu] = proc["p1"].gpu_type
       /\ occ[proc["p2"].gpu] = proc["p2"].gpu_type

\* C19: starting from a descriptor with empty or absent args, after any
\* sequence of assign_gpu calls for the VM the saved args name each device
\* assigned exactly once, in the order the devices were first assigned, and
\* hold exactly one -uuid; before any assignment they name none.
C19_ArgsTokens ==
    NoSaveUnderWay =>
        LET file == parse_text(conf[<<LocalNode, "101">>]).dict
            words == IF HasKey(file, "args") THEN Get(file, "args") ELSE <<"">>
            assigned == {proc[p].gpu : p \in {q \in Procs : /\ proc[q].kind = "assign"
                                                             /\ proc[q].vmid = "101"
                                                             /\ Finished(q)}}
        IN /\ bus_matches(words) = [k \in 1..Len(Writers) |-> DevPath(proc[Writers[k]].gpu)]
           /\ Range(bus_matches(words)) = {DevPath(d) : d \in assigned}
           /\ Cardinality(assigned) = Len(Writers)
           /\ Count(words, "-device") = Len(Writers)
           /\ \A d \in Devices : Count(words, DevWord(d)) = IF d \in assigned THEN 1 ELSE 0
           /\ Count(words, "-uuid") = IF Writers = <<>> THEN 0 ELSE 1

\* C19 witness: three calls, the third for the device of the first; args hold
\* the first device, the uuid, then the second device.
C19_Witness ==
    /\ Wrote("p1") /\ Wrote("p2") /\ proc["p3"].pc = "returned"
    /\ proc["p3"].gpu = proc["p1"].gpu /\ proc["p3"].gpu_type # proc["p1"].gpu_type
    /\ FileValue("args") = <<"-device", DevWord(proc["p1"].gpu), "-uuid", "1234",
                             "-device", DevWord(proc["p2"].gpu)>>

\* ------------------------------------------------ two assignments at once
\* The descriptors of the two VMs: nothing assigned yet, one device assigned
\* already, or no smbios1 to take a uuid from.
PairDescriptors ==
    {Descriptor(<<KV("name", <<"render">>), KV("smbios1", <<"uuid=1234">>)>>, TRUE),
     Descriptor(<<KV("args", Flatten(<<DeviceOption("0000:01:00.0"), <<"-uuid", "1234">>>>)),
                  KV("name", <<"render">>), KV("smbios1", <<"uuid=1234">>),
                  KV("tags", <<"nvidia-63">>)>>, TRUE),
     Descriptor(<<KV("name", <<"render">>)>>, TRUE)}

InitPair ==
    /\ \E d1, d2 \in PairDescriptors :
           conf = [f \in VmFiles |-> IF f = <<LocalNode, "101">> THEN d1
                                     ELSE IF f = <<LocalNode, "102">> THEN d2
                                     ELSE NoDescriptor]
    /\ devstat = [d \in Devices |-> FreshTree[d][1]]
    /\ occ = [d \in Devices |-> FreshTree[d][2]]
    /\ creatable = FixedCreatable
    /\ proc = [p \in Procs |-> IdleProc]
    /\ rt = NoRoundTrip

\* Two assignment processes, their steps interleaved in any way.
NextPair ==
    \E p \in {"p1", "p2"} :
        \/ Invoke_assign(p)
        \/ assign_get_vms(p)
        \/ assign_gpu(p)
        \/ assign_save(p)

SpecPair == InitPair /\ [][NextPair]_vars

\* What a call leaves in its descriptor file when nothing else touches the
\* file: the text it read, or the mapping it saves.
LeftAlone(p) ==
    LET config == parse_text(proc[p].text).dict
    IN IF \/ already_assigned(config, proc[p].gpu)
          \/ needs_uuid(config) /\ uuid_of(config) \in {"KeyError", "ValueError"}
       THEN proc[p].text
       ELSE LET saved == serialize(assigned_config(config, proc[p].gpu, proc[p].gpu_type))
            IN Descriptor(saved.lines, saved.nl)

\* C12: a step changes no device file, and a descriptor file only when it is
\* the file of (node, vmid) of an assign_gpu that is writing; so when two
\* calls for different VMs have both finished, under every interleaving, each
\* VM's file is what its call alone leaves from the text it read.
C12_OneFileOnly ==
    /\ [][/\ occ' = occ /\ devstat' = devstat /\ creatable' = creatable
          /\ \A f \in VmFiles :
                 conf'[f] # conf[f]
                 => \E p \in Procs : /\ proc[p].kind = "assign"
                                     /\ proc[p].pc \in {"assign", "save"}
                                     /\ f = <<proc[p].node, proc[p].vmid>>]_vars
    /\ [](\A p, q \in {"p1", "p2"} :
              (/\ proc[p].kind = "assign" /\ proc[q].kind = "assign"
               /\ Finished(p) /\ Finished(q) /\ proc[p].vmid # proc[q].vmid)
              => conf[<<proc[p].node, proc[p].vmid>>] = LeftAlone(p))

\* C12 witness: both calls wrote, each its own VM's file.
C12_Witness ==
    /\ Wrote("p1") /\ Wrote("p2") /\ proc["p1"].vmid # proc["p2"].vmid
    /\ conf[<<LocalNode, "101">>] # conf[<<LocalNode, "102">>]

\* ------------------------------------------------------- two hooks at once
\* VM 101 asks for the first device or the first two, VM 102 for the third or
\* the last two; the descriptors name one or two types.
HooksDescriptors(devices, labels) ==
    {Descriptor(<<KV("args", Flatten([k \in 1..Len(ds) |-> DeviceOption(ds[k])])),
                  KV("name", <<"render">>), KV("tags", t)>>, TRUE) :
        ds \in devices, t \in labels}

InitHooks ==
    /\ \E d1 \in HooksDescriptors({<<"0000:01:00.0">>, <<"0000:01:00.0", "0000:02:00.0">>},
                                  {<<"nvidia-63">>, <<"nvidia-63", "nvidia-100">>}),
          d2 \in HooksDescriptors({<<"0000:03:00.0">>, <<"0000:02:00.0", "0000:03:00.0">>},
                                  {<<"nvidia-64">>}) :
           conf = [f \in VmFiles |-> IF f = <<LocalNode, "101">> THEN d1
                                     ELSE IF f = <<LocalNode, "102">> THEN d2
                                     ELSE NoDescriptor]
    /\ \E tree \in DeviceTrees :
           /\ devstat = [d \in Devices |-> tree[d][1]]
           /\ occ = [d \in Devices |-> tree[d][2]]
    /\ creatable = FixedCreatable
    /\ proc = [p \in Procs |-> IdleProc]
    /\ rt = NoRoundTrip

\* Two hook processes, one per VM, their file operations interleaved in any way.
NextHooks ==
    \/ Invoke_main("p1", {"101"}, {"pre-start", "post-stop"}, {NoNode})
    \/ Invoke_main("p2", {"102"}, {"pre-start", "post-stop"}, {NoNode})
    \/ \E p \in {"p1", "p2"} :
        \/ main_load(p)
        \/ main_requirement(p)
        \/ main_check(p)
        \/ main_activate(p)
        \/ main_post_stop(p)

SpecHooks == InitHooks /\ [][NextHooks]_vars

\* ------------------------------------------------ terms of the hook claims
\* What a device held before any hook ran (DeviceTrees).
InitialOcc == [d \in Devices |-> IF devstat[d] = "missing" THEN NoFile ELSE "64"]

\* The occupancy a run of the hook leaves when it runs alone from o: the
\* stops of post-stop; for pre-start the stops up to the first missing path,
\* then the activations up to the first control file that cannot be opened.
RECURSIVE StopEach(_, _)
StopEach(paths, o) ==
    IF paths = <<>> THEN o
    ELSE StopEach(Tail(paths),
                  IF Writable(Head(paths)) THEN [o EXCEPT ![PathDev(Head(paths))] = Sentinel]
                  ELSE o)

RECURSIVE CheckEach(_, _)
CheckEach(paths, o) ==
    IF paths = <<>> \/ ~Exists(Head(paths)) THEN o
    ELSE CheckEach(Tail(paths),
                   IF Writable(Head(paths)) THEN [o EXCEPT ![PathDev(Head(paths))] = Sentinel]
                   ELSE o)

RECURSIVE ActivateEach(_, _, _, _)
ActivateEach(types, paths, k, o) ==
    IF k > Len(paths) \/ ~Writable(paths[k]) THEN o
    ELSE ActivateEach(types, paths, k + 1,
                      [o EXCEPT ![PathDev(paths[k])] = types[((k - 1) % Len(types)) + 1]])

RunAlone(p, o) ==
    LET types == RequestedTypes(p)
        paths == RequestedPaths(p)
    IN IF ~Loads(p) \/ types = <<>> \/ paths = <<>> THEN o
       ELSE IF proc[p].phase = "post-stop" THEN StopEach(paths, o)
       ELSE IF proc[p].phase = "pre-start"
            THEN IF \A k \in 1..Len(paths) : Exists(paths[k])
                 THEN ActivateEach(types, paths, 1, CheckEach(paths, o))
                 ELSE CheckEach(paths, o)
       ELSE o

RequestedDevices(p) == {PathDev(RequestedPaths(p)[k]) : k \in 1..Len(RequestedPaths(p))}

\* C13: when two hooks, each pre-start or post-stop, for different VMs that
\* request disjoint sets of devices have both ended, whatever the interleaving
\* of their steps, every device holds what the run that requests it leaves
\* when it runs alone, and a device neither requests holds what it held.
C13_IndependentDevices ==
    (/\ Ended("p1") /\ Ended("p2")
     /\ proc["p1"].kind = "hook" /\ proc["p2"].kind = "hook"
     /\ proc["p1"].vmid # proc["p2"].vmid
     /\ RequestedDevices("p1") \cap RequestedDevices("p2") = {})
    => \A d \in Devices :
           occ[d] = IF d \in RequestedDevices("p1") THEN RunAlone("p1", InitialOcc)[d]
                    ELSE IF d \in RequestedDevices("p2") THEN RunAlone("p2", InitialOcc)[d]
                    ELSE InitialOcc[d]

\* C13 witness: VM 101 was started on two devices while VM 102 was stopped on
\* the third.
C13_Witness ==
    /\ Ended("p1") /\ Ended("p2")
    /\ proc["p1"].phase = "pre-start" /\ proc["p2"].phase = "post-stop"
    /\ proc["p1"].exitcode = 0 /\ proc["p2"].exitcode = 0
    /\ RequestedDevices("p1") = {"0000:01:00.0", "0000:02:00.0"}
    /\ RequestedDevices("p2") = {"0000:03:00.0"}
    /\ occ = [d \in Devices |-> IF d = "0000:01:00.0" THEN "100"
                                ELSE IF d = "0000:02:00.0" THEN "63" ELSE Sentinel]

\* ----------------------------------------- the order of writes in pre-start
\* The writes of the process so far that put the sentinel, or a type.
IsReset(w) == w[2] = Sentinel

\* The last write of the process to a device, <<>> when it wrote none.
LastWrite(p, d) ==
    LET at == {k \in 1..Len(proc[p].devlog) : proc[p].devlog[k][1] = d}
    IN IF at = {} THEN <<>> ELSE proc[p].devlog[CHOOSE k \in at : \A j \in at : j <= k]

AllExist(p) == \A k \in 1..Len(RequestedPaths(p)) : Exists(RequestedPaths(p)[k])

\* C14 (as claimed): when all requested paths exist, the sentinel has been
\* written to every requested device before the first type id is written, and
\* at the end of the phase each device's last write is its type id.
C14_ResetEveryDeviceFirst ==
    \A p \in Procs :
        (InTransition(p, "pre-start") /\ AllExist(p))
        => /\ \A k \in 1..Len(proc[p].devlog) :
                  ~IsReset(proc[p].devlog[k])
                  => \A d \in RequestedDevices(p) :
                         \E j \in 1..(k - 1) : proc[p].devlog[j] = <<d, Sentinel>>
           /\ Ended(p) => \A d \in RequestedDevices(p) :
                              LastWrite(p, d) # <<>> /\ ~IsReset(LastWrite(p, d))

\* C14 (amended): when all requested paths exist, the sentinel has been written
\* to every requested device whose control file can be opened before the first
\* type id is written, no sentinel is written after a type id, and when the
\* phase ends with status 0 each device's last write is a type id.
C14_ResetBeforeActivate ==
    \A p \in Procs :
        (/\ proc[p].devlog # <<>> \/ (Ended(p) /\ proc[p].exitcode = 0)
         /\ InTransition(p, "pre-start") /\ AllExist(p))
        => LET devices == RequestedDevices(p)
               log == proc[p].devlog
           IN /\ \A k \in 1..Len(log) :
                     ~IsReset(log[k])
                     => /\ \A d \in devices :
                               devstat[d] = "ok"
                               => \E j \in 1..(k - 1) : log[j] = <<d, Sentinel>>
                        /\ \A j \in (k + 1)..Len(log) : ~IsReset(log[j])
              /\ (Ended(p) /\ proc[p].exitcode = 0)
                     => \A d \in devices :
                            LastWrite(p, d) # <<>> /\ ~IsReset(LastWrite(p, d))

\* C14 witness: two devices reset, then the first one activated.
C14_Witness ==
    \E p \in Procs :
        /\ InTransition(p, "pre-start") /\ AllExist(p)
        /\ Len(proc[p].devlog) = 3 /\ Cardinality(RequestedDevices(p)) = 2
        /\ IsReset(proc[p].devlog[1]) /\ IsReset(proc[p].devlog[2])
        /\ ~IsReset(proc[p].devlog[3])

\* The activation write of the process failed, at the 1-based index proc[p].i.
ActivationFailed(p) ==
    /\ Ended(p) /\ proc[p].exc = "PermissionError"
    /\ InTransition(p, "pre-start")

\* The indexes below k at which the device of index j is requested.
Below(p, j, k) == {m \in 1..(k - 1) : RequestedPaths(p)[m] = RequestedPaths(p)[j]}

\* C15 (as claimed): when the activation write at index k fails the process
\* ends with an error, every device at an index below k holds the type id
\* written to it there, and every device at an index above k holds the sentinel.
C15_NoRollbackSentinelAbove ==
    \A p \in Procs :
        ActivationFailed(p)
        => LET paths == RequestedPaths(p)
               types == RequestedTypes(p)
               k == proc[p].i
           IN /\ proc[p].exitcode # 0
              /\ \A j \in 1..(k - 1) :
                     occ[PathDev(paths[j])] = types[((j - 1) % Len(types)) + 1]
              /\ \A j \in (k + 1)..Len(paths) : occ[PathDev(paths[j])] = Sentinel

\* C15 (amended): when the activation write at index k fails the process ends
\* with an error and nothing is undone: a device requested below k holds the
\* type id of the last index below k it is requested at, and a device
\* requested only above k holds the sentinel of the reset step when its control
\* file could be opened, and what it held before the hook otherwise.
C15_NoRollback ==
    \A p \in Procs :
        ActivationFailed(p)
        => LET paths == RequestedPaths(p)
               types == RequestedTypes(p)
               k == proc[p].i
           IN /\ proc[p].exitcode # 0
              /\ devstat[PathDev(paths[k])] = "ro"
              /\ \A j \in 1..(k - 1) :
                     LET last == CHOOSE m \in Below(p, j, k) : \A n \in Below(p, j, k) : n <= m
                     IN occ[PathDev(paths[j])] = types[((last - 1) % Len(types)) + 1]
              /\ \A j \in (k + 1)..Len(paths) :
                     Below(p, j, k) = {}
                     => occ[PathDev(paths[j])]
                            = IF devstat[PathDev(paths[j])] = "ok" THEN Sentinel
                              ELSE InitialOcc[PathDev(paths[j])]

\* C15 witness: three devices, the write to the second fails: the first holds
\* its type, the third the sentinel.
C15_Witness ==
    \E p \in Procs :
        /\ ActivationFailed(p) /\ proc[p].i = 2 /\ Len(RequestedPaths(p)) = 3
        /\ Cardinality(RequestedDevices(p)) = 3
        /\ occ[PathDev(RequestedPaths(p)[1])] = RequestedTypes(p)[1]
        /\ occ[PathDev(RequestedPaths(p)[3])] = Sentinel

\* ------------------------------------------------------------- the menus
\* The key events getch() returns: the arrows, ENTER (KEY_ENTER, 10 or 13),
\* ESC (27) and any other key.
KeyEvents == {"UP", "DOWN", "ENTER", "ESC", "other"}

\* The code points of a catalog entry, a string held as its pieces.
EntryChars(e) == Flatten([k \in 1..Len(e) |-> Chars(e[k])])

\* gpu_types = list(gpu_types); gpu_types.sort()
RECURSIVE sorted_types(_)
sorted_types(S) ==
    IF S = {} THEN <<>>
    ELSE LET m == CHOOSE x \in S : \A y \in S \ {x} : LexLess(EntryChars(x), EntryChars(y))
         IN <<m>> \o sorted_types(S \ {m})

\* The UP and DOWN branches of the three menus, on a list of n rows.
move(current_row, key, n) ==
    IF key = "UP" /\ current_row > 0 THEN current_row - 1
    ELSE IF key = "DOWN" /\ current_row < n - 1 THEN current_row + 1
    ELSE current_row

\* get_gpus in a process that keeps AVAILABLE_GPUS, ASSIGNED_GPUS and
\* GPU_TYPES: the kept scan when GPU_TYPES is not empty, a new scan otherwise.
memo_get_gpus(pr) == IF pr.gpus # <<>> /\ pr.gpus[3] # {} THEN pr.gpus ELSE get_gpus

\* script.py menu
Invoke_menu(p) ==
    /\ proc[p].pc = "idle"
    /\ proc' = [proc EXCEPT ![p] = [IdleProc EXCEPT !.pc = "menu_start", !.kind = "menu"]]
    /\ UNCHANGED <<conf, devstat, occ, creatable, rt>>

\* menu, lines 175-178: vms = get_vms(), current_row = 0.
menu_start(p) ==
    /\ proc[p].pc = "menu_start"
    /\ LET vms == get_vms
       IN proc' = [proc EXCEPT ![p] =
              IF \E k \in 1..Len(vms) : ~vm_config(vms[k]).ok THEN Exit(@, 1, "ValueError")
              ELSE [@ EXCEPT !.vms = [k \in 1..Len(vms) |->
                                         <<vms[k][1], vms[k][2], vm_config(vms[k]).dict>>],
                             !.current_row = <<0>>,
                             !.pc = "menu"]]
    /\ UNCHANGED <<conf, devstat, occ, creatable, rt>>

\* menu, lines 180-202: one turn of the loop: the list is drawn (config['name']
\* of every VM), a key is read and handled.  ENTER opens gpu_type_menu, whose
\* lines 205-210 take the sorted catalog of the scan.
menu(p) ==
    /\ proc[p].pc = "menu"
    /\ \E key \in KeyEvents :
        LET vms == proc[p].vms
            current_row == proc[p].current_row[1]
            gpus == memo_get_gpus(proc[p])
        IN proc' = [proc EXCEPT ![p] =
               IF \E k \in 1..Len(vms) : ~HasKey(vms[k][3], "name") THEN Exit(@, 1, "KeyError")
               ELSE IF key \in {"UP", "DOWN"}
                    THEN [@ EXCEPT !.current_row = <<move(current_row, key, Len(vms))>>]
               ELSE IF key = "ENTER"
                    THEN IF current_row >= Len(vms) THEN Exit(@, 1, "IndexError")
                         ELSE [@ EXCEPT !.vmid = vms[current_row + 1][1],
                                        !.node = vms[current_row + 1][2],
                                        !.gpus = gpus,
                                        !.gpu_types = sorted_types(gpus[3]),
                                        !.current_row = <<current_row, 0>>,
                                        !.pc = "gpu_type_menu"]
               ELSE IF key = "ESC" THEN Exit(@, 0, "")
               ELSE @]
    /\ UNCHANGED <<conf, devstat, occ, creatable, rt>>

\* gpu_type_menu, lines 211-231: one turn of the loop.  ENTER opens gpu_menu,
\* whose lines 234-238 keep the free devices that offer the selected type.
gpu_type_menu(p) ==
    /\ proc[p].pc = "gpu_type_menu"
    /\ \E key \in KeyEvents :
        LET gpu_types == proc[p].gpu_types
            current_row == proc[p].current_row[2]
            gpus == memo_get_gpus(proc[p])
        IN proc' = [proc EXCEPT ![p] =
               IF key \in {"UP", "DOWN"}
               THEN [@ EXCEPT !.current_row[2] = move(current_row, key, Len(gpu_types))]
               ELSE IF key = "ENTER"
                    THEN IF current_row >= Len(gpu_types) THEN Exit(@, 1, "IndexError")
                         ELSE LET selected_gpu_type == vgpu_id(gpu_types[current_row + 1])
                              IN [@ EXCEPT !.gpu_type = selected_gpu_type,
                                           !.gpus = gpus,
                                           !.filtered_gpus =
                                               SelectSeq(gpus[1], LAMBDA item :
                                                   selected_gpu_type \in Range(item[2])),
                                           !.current_row = Append(proc[p].current_row, 0),
                                           !.pc = "gpu_menu"]
               ELSE IF key = "ESC"
                    THEN [@ EXCEPT !.current_row = <<proc[p].current_row[1]>>, !.pc = "menu"]
               ELSE @]
    /\ UNCHANGED <<conf, devstat, occ, creatable, rt>>

\* gpu_menu, lines 239-264: one turn of the loop.  ENTER calls assign_gpu,
\* whose get_vms returns the list menu read (lines 24-25, 136-139).
gpu_menu(p) ==
    /\ proc[p].pc = "gpu_menu"
    /\ \E key \in KeyEvents :
        LET filtered_gpus == proc[p].filtered_gpus
            current_row == proc[p].current_row[3]
            hits == SelectSeq(proc[p].vms, LAMBDA vm : vm[1] = proc[p].vmid)
        IN proc' = [proc EXCEPT ![p] =
               IF key \in {"UP", "DOWN"}
               THEN [@ EXCEPT !.current_row[3] = move(current_row, key, Len(filtered_gpus))]
               ELSE IF key = "ENTER"
                    THEN IF current_row >= Len(filtered_gpus) THEN Exit(@, 1, "IndexError")
                         ELSE IF Head(hits)[3] = <<>> THEN Exit(@, 1, "")
                         ELSE [@ EXCEPT !.gpu = filtered_gpus[current_row + 1][1],
                                        !.config = Head(hits)[3],
                                        !.pc = "assign"]
               ELSE IF key = "ESC"
                    THEN [@ EXCEPT !.current_row = SubSeq(proc[p].current_row, 1, 2),
                                   !.pc = "gpu_type_menu"]
               ELSE @]
    /\ UNCHANGED <<conf, devstat, occ, creatable, rt>>

\* gpu_menu, lines 258-262: assign_gpu returned; the message is shown until a
\* key is pressed.
gpu_menu_any_key(p) ==
    /\ proc[p].pc = "returned" /\ proc[p].kind = "menu"
    /\ proc' = [proc EXCEPT ![p].pc = "gpu_menu"]
    /\ UNCHANGED <<conf, devstat, occ, creatable, rt>>

\* The descriptors of the host the menu is started on: none, one VM, two VMs,
\* a VM that has a device already, a VM without a name.
MenuHosts ==
    LET plain == Descriptor(<<KV("name", <<"render">>), KV("smbios1", <<"uuid=1234">>)>>, TRUE)
        given == Descriptor(
                     <<KV("args", Flatten(<<DeviceOption("0000:01:00.0"), <<"-uuid", "1234">>>>)),
                       KV("name", <<"render">>), KV("smbios1", <<"uuid=1234">>),
                       KV("tags", <<"nvidia-63">>)>>, TRUE)
        nameless == Descriptor(<<KV("smbios1", <<"uuid=1234">>)>>, TRUE)
    IN {<<NoDescriptor, NoDescriptor>>, <<plain, NoDescriptor>>, <<plain, given>>,
        <<given, NoDescriptor>>, <<nameless, NoDescriptor>>}

InitMenu ==
    /\ \E host \in MenuHosts :
           conf = [f \in VmFiles |-> IF f = <<LocalNode, "101">> THEN host[1]
                                     ELSE IF f = <<LocalNode, "102">> THEN host[2]
                                     ELSE NoDescriptor]
    /\ \E tree \in ScanTrees :
           /\ devstat = [d \in Devices |-> tree[d][1]]
           /\ occ = [d \in Devices |-> tree[d][2]]
           /\ creatable = [d \in Devices |-> tree[d][3]]
    /\ proc = [p \in Procs |-> IdleProc]
    /\ rt = NoRoundTrip

NextMenu ==
    \/ Invoke_menu("p1")
    \/ menu_start("p1")
    \/ menu("p1")
    \/ gpu_type_menu("p1")
    \/ gpu_menu("p1")
    \/ gpu_menu_any_key("p1")
    \/ assign_gpu("p1")
    \/ assign_save("p1")

SpecMenu == InitMenu /\ [][NextMenu]_vars

\* ------------------------------------------------ terms of the scan claim
\* The process has called get_gpus and keeps its result.
HasScanned(p) == proc[p].gpus # <<>>

Marked == {d \in Devices : devstat[d] # "missing"}
FreeMap(p) == proc[p].gpus[1]
OccupiedMap(p) == proc[p].gpus[2]
Catalog(p) == proc[p].gpus[3]
MapKeys(items) == {items[k][1] : k \in 1..Len(items)}

\* The type ids creatable on a free device or occupying an occupied one.
SeenTypeIds ==
    {occ[d] : d \in {e \in Marked : occ[e] # Sentinel}}
    \cup UNION {Range(creatable[d]) : d \in {e \in Marked : occ[e] = Sentinel}}

\* C16 (as claimed): after get_gpus every marked device is in exactly one of
\* the free map (it reads the sentinel) and the occupied map (recorded with the
\* type it holds); a free device's list is the type ids of its creatable-types
\* file in file order; and the catalog is the set of distinct type ids seen,
\* one entry for each.
C16_ScanResult ==
    \A p \in Procs :
        HasScanned(p) =>
            /\ MapKeys(FreeMap(p)) = {d \in Marked : occ[d] = Sentinel}
            /\ MapKeys(OccupiedMap(p)) = {d \in Marked : occ[d] # Sentinel}
            /\ \A k \in 1..Len(OccupiedMap(p)) :
                   vgpu_id(OccupiedMap(p)[k][2]) = occ[OccupiedMap(p)[k][1]]
            /\ \A k \in 1..Len(FreeMap(p)) : FreeMap(p)[k][2] = creatable[FreeMap(p)[k][1]]
            /\ {vgpu_id(e) : e \in Catalog(p)} = SeenTypeIds
            /\ Cardinality(Catalog(p)) = Cardinality(SeenTypeIds)

\* C20 (as claimed): in the menus, whenever ENTER is handled the cursor row is
\* an index of the displayed list, the empty list included; so on a host that
\* has a VM and a vGPU type to show, no run of the menus ends on an index
\* outside the list it displays.
C20_EnterOnValidRow ==
    \A p \in Procs :
        (proc[p].kind = "menu" /\ proc[p].vms # <<>> /\ proc[p].gpu_types # <<>>)
        => proc[p].exc # "IndexError"

====
